---- MODULE Spec2Model ----
(***************************************************************************)
(* Tool-call accumulator and remote tool dispatcher of src/app.py:         *)
(* AzureOpenaiFunctionCallStreamState, process_function_call_stream and    *)
(* openai_remote_azure_function_call.                                      *)
(*                                                                         *)
(* One stream state object is driven by one coroutine.  Each invocation of *)
(* process_function_call_stream is the action ProcessChunk; the dispatch   *)
(* loop of lines 527-543 suspends at the await of line 528, so each of its *)
(* iterations is one step of the action DispatchToolCall.                  *)
(*                                                                         *)
(* Spec         one stream state object and the tool dispatcher            *)
(* SpecTwo      two requests, each with a state object of its own          *)
(* SpecChat     conversation_internal, stream_chat_request and generate    *)
(* SpecHistory  init() of create_app and the /history routes               *)
(***************************************************************************)
EXTENDS Naturals, Sequences, FiniteSets, TLC

\* ---------------------------------------------------------------- bounds
\* Tool-call fragments carried by the chunks of one stream, all together.
MaxFragments == 3
\* Times the dispatch loop (line 527) is entered on one stream.
MaxPasses == 2
\* Tool-call fragments two concurrent streams go on with, all together.
MaxConcurrentFragments == 1
\* Chat requests handled concurrently by conversation_internal.
MaxChats == 2
\* Chunks one upstream stream yields.
MaxChunks == 2
\* History requests handled concurrently.
MaxRequests == 1

\* ------------------------------------------------------------ value sets
\* Python None, for string-valued fields.
None == "None"
\* A reference to no dict (current_tool_call = None).
NoneRef == 0
\* Call ids the upstream puts on a fragment that starts a call.
CallIds == {"A", "B"}
\* Function names the upstream puts on a fragment that starts a call.
ToolNames == {"f"}
\* Argument text pieces; the arguments field of a fragment may also be None.
Deltas == {"{", "}"}
\* Status codes the tool endpoint answers with.
EndpointStatuses == {200, 500}
\* Bodies the tool endpoint answers with.
ResponseTexts == {"r"}

\* tool_call_chunk: id, function.name, function.arguments
Fragments ==
    [id : CallIds, name : ToolNames, arguments : Deltas \cup {None}]
    \cup [id : {None}, name : {None}, arguments : Deltas \cup {None}]

\* delta.tool_calls when it is a list: up to n fragments.
FragmentLists(n) == UNION {[1..k -> Fragments] : k \in 0..n}

\* completionChunk: whether it has a non-empty choices list, and
\* choices[0].delta.tool_calls (None, or a possibly empty list of fragments).
Chunks(n) ==
    {[has_choices |-> FALSE, tool_calls_is_None |-> TRUE, tool_calls |-> <<>>]}
    \cup {[has_choices |-> TRUE, tool_calls_is_None |-> TRUE, tool_calls |-> <<>>]}
    \cup {[has_choices |-> TRUE, tool_calls_is_None |-> FALSE, tool_calls |-> fl] :
            fl \in FragmentLists(n)}

\* The chat requests in flight.
ChatRequests == 1..MaxChats
\* What the upstream stream yields: a chunk of text or of tool-call
\* fragments; `of` remembers the request whose upstream yielded it.
ChunkKinds == {"text", "tool_calls"}
UpstreamChunks(r) == [of : {r}, kind : ChunkKinds]
\* Exceptions of the upstream service: with a status_code attribute or not.
NoException == [name |-> "None"]
UpstreamExceptions ==
    {[name |-> "APIStatusError", has_status_code |-> TRUE, status_code |-> 429],
     [name |-> "ServiceResponseException", has_status_code |-> FALSE]}
NoResponse == [kind |-> "None"]

\* The history requests in flight.
HistoryRequests == 1..MaxRequests
\* The routes of lines 602-1044, by the last part of their path.
Endpoints == {"generate", "update", "message_feedback", "delete", "list",
              "read", "rename", "delete_all", "clear", "ensure"}
\* What a handler reads of the request's messages: none, or the roles of the
\* last two.
Messages == {"empty", "last_user", "last_assistant", "tool_then_assistant"}
\* A request body nothing was read of yet.
NoBody == [conversation_id |-> FALSE, messages |-> "empty",
           message_id |-> FALSE, message_feedback |-> FALSE, title |-> FALSE]
\* early: the request came in while cosmos_db_ready was not set.
NoRequest == [pc |-> "none", endpoint |-> "none", early |-> FALSE,
              body |-> NoBody, ops |-> <<>>, response |-> NoResponse]

\* ----------------------------------------------------------------- state
VARIABLES
    tool_calls,             \* state.tool_calls: references to descriptor dicts
    tool_name,              \* state.tool_name
    tool_arguments_stream,  \* state.tool_arguments_stream
    current_tool_call,      \* state.current_tool_call: a reference, or NoneRef
    function_messages,      \* state.function_messages
    streaming_state,        \* state.streaming_state
    heap,                   \* the descriptor dicts, by reference
    function_call_azure_functions_enabled,  \* app_settings.azure_openai...
    pc,                     \* "idle", or "dispatch" inside the loop of line 527
    loop_index,             \* position of the loop of line 527 in tool_calls
    result,                 \* how the last invocation ended: value or exception
    last_chunk,             \* what the last invocation was offered, and when
    dispatches,             \* every call of openai_remote_azure_function_call
    flushed,                \* every flush of the open call into tool_calls
    belongs,                \* per descriptor: the argument deltas of its call
    nFragments,             \* fragments offered so far
    nPasses,                \* times the loop of line 527 was entered
    parked,                 \* the state object of a second request, and its logs
    azure_openai_stream,    \* app_settings.azure_openai.stream (no promptflow)
    chats,                  \* per chat request: conversation_internal's run
    chat_history,           \* app_settings.chat_history is configured
    init_pc,                \* where init() of create_app is
    cosmos_conversation_client,  \* app.cosmos_conversation_client
    cosmos_db_ready,        \* the asyncio.Event of line 55 is set
    requests                \* per history request: its handler's run

accumulator == <<tool_calls, tool_name, tool_arguments_stream,
                 current_tool_call, function_messages, streaming_state, heap>>

vars == <<tool_calls, tool_name, tool_arguments_stream, current_tool_call,
          function_messages, streaming_state, heap,
          function_call_azure_functions_enabled, pc, loop_index, result,
          last_chunk, dispatches, flushed, belongs, nFragments, nPasses,
          parked, azure_openai_stream, chats, chat_history, init_pc,
          cosmos_conversation_client, cosmos_db_ready, requests>>

\* What process_function_call_stream and the tool dispatcher never touch.
chat_vars == <<azure_openai_stream, chats>>
history_vars == <<chat_history, init_pc, cosmos_conversation_client,
                  cosmos_db_ready, requests>>
others == <<parked, chat_vars, history_vars>>

\* ------------------------------------------------------- python helpers
\* Truthiness of an optional string (if tool_call_chunk.id:).
Truthy(s) == s /= None /\ s /= ""

\* x if x else ""
ArgText(a) == IF Truthy(a) THEN a ELSE ""

\* d[k] = v on a dict
SetItem(d, k, v) == [x \in DOMAIN d \cup {k} |-> IF x = k THEN v ELSE d[x]]

\* json.loads succeeds.  Over the alphabet of Deltas the only JSON text is
\* the empty object.
IsValidJSON(s) == s = "{}"

\* A state object as __init__ leaves it, with the position of the coroutine
\* that is given it and the logs kept about it.
NewObject ==
    [tool_calls |-> <<>>, tool_name |-> "", tool_arguments_stream |-> "",
     current_tool_call |-> NoneRef, function_messages |-> <<>>,
     streaming_state |-> "INITIAL", heap |-> <<>>, pc |-> "idle",
     loop_index |-> 0, result |-> None, last_chunk |-> "none yet",
     dispatches |-> <<>>, flushed |-> <<>>, belongs |-> <<>>]

\* AzureOpenaiFunctionCallStreamState.__init__, for the request that runs
\* and for the other one.
NewStreamState ==
    /\ tool_calls = <<>>
    /\ tool_name = ""
    /\ tool_arguments_stream = ""
    /\ current_tool_call = NoneRef
    /\ function_messages = <<>>
    /\ streaming_state = "INITIAL"
    /\ heap = <<>>
    /\ pc = "idle"
    /\ loop_index = 0
    /\ result = None
    /\ last_chunk = "none yet"
    /\ dispatches = <<>>
    /\ flushed = <<>>
    /\ belongs = <<>>
    /\ nFragments = 0
    /\ nPasses = 0
    /\ parked = NewObject

\* No chat request has arrived.
NoChats ==
    chats = [r \in ChatRequests |->
                [pc |-> "none", upstream |-> <<>>, events |-> <<>>,
                 upstream_error |-> NoException, propagated |-> NoException,
                 response |-> NoResponse]]

\* Lines 55-59: the event is not set, the app has no client attribute yet,
\* and init() has not run.
NotStarted ==
    /\ init_pc = "before"
    /\ cosmos_conversation_client = "unset"
    /\ cosmos_db_ready = FALSE
    /\ requests = [r \in HistoryRequests |-> NoRequest]

\* One stream state object fed by its caller; no request is made of the app.
Init ==
    /\ NewStreamState
    /\ function_call_azure_functions_enabled \in BOOLEAN
    /\ azure_openai_stream = TRUE
    /\ NoChats
    /\ chat_history = TRUE
    /\ NotStarted

\* ------------------------------------------- lines 501-518: one fragment
\* The fields the loop over response_message.tool_calls reads and writes.
LoopState ==
    [tool_calls |-> tool_calls, tool_name |-> tool_name,
     tool_arguments_stream |-> tool_arguments_stream,
     current_tool_call |-> current_tool_call, heap |-> heap,
     flushed |-> flushed, belongs |-> belongs]

\* Lines 505-511: a fragment with an id arrives while a call is open.
FlushOnNewCall(S, f) ==
    LET cur == S.current_tool_call
        stream == S.tool_arguments_stream \o ArgText(f.arguments)
    IN [S EXCEPT
          !.heap = [S.heap EXCEPT ![cur] = SetItem(@, "tool_arguments", stream)],
          !.tool_arguments_stream = "",
          !.tool_name = "",
          !.tool_calls = Append(S.tool_calls, cur),
          !.flushed = Append(S.flushed,
                             [call |-> cur, by |-> "new_call",
                              before |-> S.tool_arguments_stream,
                              arguments |-> stream])]

\* Lines 513-516: the fragment's call becomes the open call (a new dict).
OpenCall(S, f) ==
    [S EXCEPT
       !.heap = Append(S.heap,
                       [tool_id |-> f.id,
                        tool_name |-> IF S.tool_name = "" THEN f.name
                                      ELSE S.tool_name]),
       !.current_tool_call = Len(S.heap) + 1,
       !.belongs = Append(S.belongs, ArgText(f.arguments))]

\* Line 518: a fragment without an id only extends the argument buffer.
AppendArguments(S, f) ==
    [S EXCEPT
       !.tool_arguments_stream = S.tool_arguments_stream \o ArgText(f.arguments),
       !.belongs = IF S.current_tool_call = NoneRef THEN S.belongs
                   ELSE [S.belongs EXCEPT ![S.current_tool_call] =
                            @ \o ArgText(f.arguments)]]

\* Lines 502-518: the body of the loop, for one fragment.
ProcessToolCallChunk(S, f) ==
    IF Truthy(f.id)
    THEN OpenCall(IF S.current_tool_call /= NoneRef
                  THEN FlushOnNewCall(S, f) ELSE S, f)
    ELSE AppendArguments(S, f)

\* Line 501: for tool_call_chunk in response_message.tool_calls
RECURSIVE ProcessToolCallChunks(_, _)
ProcessToolCallChunks(S, fl) ==
    IF fl = <<>> THEN S
    ELSE ProcessToolCallChunks(ProcessToolCallChunk(S, Head(fl)), Tail(fl))

\* ------------------------------------------------- lines 499, 521, 548
\* Which branch of process_function_call_stream a delta takes.
\* A plausible slip: line 499 without its test of the streaming state.
IsFunctionCallStreaming_AnyState(chunk, state) ==
    /\ ~chunk.tool_calls_is_None
    /\ chunk.tool_calls /= <<>>

\* Line 499: tool_calls is truthy (a non-empty list) and the state is open.
IsFunctionCallStreaming(chunk, state) ==
    /\ ~chunk.tool_calls_is_None
    /\ chunk.tool_calls /= <<>>
    /\ state \in {"INITIAL", "STREAMING"}

\* Line 521: tool_calls is None while STREAMING.
IsStreamingCompleted(chunk, state) ==
    /\ ~IsFunctionCallStreaming(chunk, state)
    /\ chunk.tool_calls_is_None
    /\ state = "STREAMING"

\* What the chunk offered, for last_chunk.
Offered(chunk) ==
    IF ~chunk.has_choices THEN "no choices"
    ELSE IF chunk.tool_calls_is_None THEN "None"
    ELSE IF chunk.tool_calls = <<>> THEN "empty"
    ELSE "fragments"

\* --------------------------------- process_function_call_stream, 494-549
\* The coroutine is not suspended in an earlier invocation; what the chunk
\* offers is remembered and its fragments are counted (Next offers no more
\* than MaxFragments of them over the stream).
Offer(chunk) ==
    /\ pc = "idle"
    /\ nFragments' = nFragments + Len(chunk.tool_calls)
    /\ last_chunk' = Offered(chunk)
    /\ UNCHANGED others

\* Line 495 is false: the function falls through and returns None.
NoChoices(chunk) ==
    /\ Offer(chunk)
    /\ ~chunk.has_choices
    /\ result' = None
    /\ UNCHANGED <<accumulator, function_call_azure_functions_enabled, pc,
                   loop_index, dispatches, flushed, belongs, nPasses>>

\* Lines 499-518: the fragments of the chunk are accumulated; the function
\* falls through and returns None.
StreamFragments(chunk) ==
    /\ Offer(chunk)
    /\ chunk.has_choices
    /\ IsFunctionCallStreaming(chunk, streaming_state)
    /\ LET S == ProcessToolCallChunks(LoopState, chunk.tool_calls)
       IN /\ streaming_state' = "STREAMING"
          /\ tool_calls' = S.tool_calls
          /\ tool_name' = S.tool_name
          /\ tool_arguments_stream' = S.tool_arguments_stream
          /\ current_tool_call' = S.current_tool_call
          /\ heap' = S.heap
          /\ flushed' = S.flushed
          /\ belongs' = S.belongs
    /\ result' = None
    /\ UNCHANGED <<function_messages, function_call_azure_functions_enabled,
                   pc, loop_index, dispatches, nPasses>>

\* Line 522 with current_tool_call = None: item assignment on None raises.
StreamingCompletedNoCall(chunk) ==
    /\ Offer(chunk)
    /\ chunk.has_choices
    /\ IsStreamingCompleted(chunk, streaming_state)
    /\ current_tool_call = NoneRef
    /\ result' = "TypeError"
    /\ UNCHANGED <<accumulator, function_call_azure_functions_enabled, pc,
                   loop_index, dispatches, flushed, belongs, nPasses>>

\* Lines 522-527: the open call is flushed and the dispatch loop is entered.
StreamingCompleted(chunk) ==
    /\ Offer(chunk)
    /\ chunk.has_choices
    /\ IsStreamingCompleted(chunk, streaming_state)
    /\ current_tool_call /= NoneRef
    /\ nPasses < MaxPasses
    /\ nPasses' = nPasses + 1
    /\ heap' = [heap EXCEPT ![current_tool_call] =
                   SetItem(@, "tool_arguments", tool_arguments_stream)]
    /\ tool_calls' = Append(tool_calls, current_tool_call)
    /\ flushed' = Append(flushed,
                         [call |-> current_tool_call, by |-> "end",
                          before |-> tool_arguments_stream,
                          arguments |-> tool_arguments_stream])
    /\ pc' = "dispatch"
    /\ loop_index' = 1
    /\ result' = "running"
    /\ UNCHANGED <<tool_name, tool_arguments_stream, current_tool_call,
                   function_messages, streaming_state,
                   function_call_azure_functions_enabled, dispatches, belongs>>

\* Lines 548-549: the state is returned and nothing changes.
Otherwise(chunk) ==
    /\ Offer(chunk)
    /\ chunk.has_choices
    /\ ~IsFunctionCallStreaming(chunk, streaming_state)
    /\ ~IsStreamingCompleted(chunk, streaming_state)
    /\ result' = streaming_state
    /\ UNCHANGED <<accumulator, function_call_azure_functions_enabled, pc,
                   loop_index, dispatches, flushed, belongs, nPasses>>

\* ------------------------------ openai_remote_azure_function_call, 132-146
\* Lines 530-543: the two messages appended for a dispatched call.
FunctionMessages(tool_call, tool_response) ==
    << [role |-> "assistant",
        function_call |-> [name |-> tool_call.tool_name,
                           arguments |-> tool_call.tool_arguments],
        content |-> None],
       [tool_call_id |-> tool_call.tool_id,
        role |-> "function",
        name |-> tool_call.tool_name,
        content |-> tool_response] >>

\* Lines 530-546 after a dispatch that returned: the pair is appended, and the
\* loop goes on or, past the last call, the stream state is COMPLETED.
Returned(tool_call, tool_response) ==
    /\ function_messages' =
          function_messages \o FunctionMessages(tool_call, tool_response)
    /\ IF loop_index < Len(tool_calls)
       THEN /\ loop_index' = loop_index + 1
            /\ UNCHANGED <<pc, streaming_state, result>>
       ELSE /\ loop_index' = 0
            /\ pc' = "idle"
            /\ streaming_state' = "COMPLETED"
            /\ result' = "COMPLETED"
    /\ UNCHANGED others

\* A plausible slip: an error path that starts the state machine over.
Raised_ResetsState(exception) ==
    /\ loop_index' = 0
    /\ pc' = "idle"
    /\ result' = exception
    /\ streaming_state' = "INITIAL"
    /\ UNCHANGED <<function_messages, others>>

\* The exception leaves process_function_call_stream at line 528.
Raised(exception) ==
    /\ loop_index' = 0
    /\ pc' = "idle"
    /\ result' = exception
    /\ UNCHANGED <<function_messages, streaming_state, others>>

\* A plausible slip: line 133 without its early return, so that the request
\* is sent although the tool endpoint is not enabled.
DispatchDisabled_SendsRequest ==
    /\ pc = "dispatch"
    /\ ~function_call_azure_functions_enabled
    /\ LET ref == tool_calls[loop_index]
       IN \E text \in ResponseTexts :
             /\ dispatches' = Append(dispatches,
                   [call |-> ref, posted |-> TRUE, raised |-> None,
                    returned |-> text])
             /\ Returned(heap[ref], text)
    /\ UNCHANGED <<tool_calls, tool_name, tool_arguments_stream,
                   current_tool_call, heap,
                   function_call_azure_functions_enabled, last_chunk, flushed,
                   belongs, nFragments, nPasses>>

\* Lines 133-134: the tool endpoint is not enabled; None is returned.
DispatchDisabled ==
    /\ pc = "dispatch"
    /\ ~function_call_azure_functions_enabled
    /\ LET ref == tool_calls[loop_index]
       IN /\ dispatches' = Append(dispatches,
                [call |-> ref, posted |-> FALSE, raised |-> None, returned |-> None])
          /\ Returned(heap[ref], None)
    /\ UNCHANGED <<tool_calls, tool_name, tool_arguments_stream,
                   current_tool_call, heap,
                   function_call_azure_functions_enabled, last_chunk, flushed,
                   belongs, nFragments, nPasses>>

\* Line 140: json.loads raises on the argument text; no request is sent.
DispatchBadArguments ==
    /\ pc = "dispatch"
    /\ function_call_azure_functions_enabled
    /\ LET ref == tool_calls[loop_index]
       IN /\ ~IsValidJSON(heap[ref].tool_arguments)
          /\ dispatches' = Append(dispatches,
                [call |-> ref, posted |-> FALSE, raised |-> "JSONDecodeError",
                 returned |-> None])
          /\ Raised("JSONDecodeError")
    /\ UNCHANGED <<tool_calls, tool_name, tool_arguments_stream,
                   current_tool_call, heap,
                   function_call_azure_functions_enabled, last_chunk, flushed,
                   belongs, nFragments, nPasses>>

\* Lines 142-146: the request is sent; raise_for_status raises on a status of
\* 400 or more, else the body is returned.
DispatchPost ==
    /\ pc = "dispatch"
    /\ function_call_azure_functions_enabled
    /\ LET ref == tool_calls[loop_index]
       IN /\ IsValidJSON(heap[ref].tool_arguments)
          /\ \E status \in EndpointStatuses, text \in ResponseTexts :
                IF status >= 400
                THEN /\ dispatches' = Append(dispatches,
                          [call |-> ref, posted |-> TRUE,
                           raised |-> "HTTPStatusError", returned |-> None])
                     /\ Raised("HTTPStatusError")
                ELSE /\ dispatches' = Append(dispatches,
                          [call |-> ref, posted |-> TRUE, raised |-> None,
                           returned |-> text])
                     /\ Returned(heap[ref], text)
    /\ UNCHANGED <<tool_calls, tool_name, tool_arguments_stream,
                   current_tool_call, heap,
                   function_call_azure_functions_enabled, last_chunk, flushed,
                   belongs, nFragments, nPasses>>

\* One invocation of process_function_call_stream on the state object.
ProcessChunk ==
    \/ \E chunk \in Chunks(0) : NoChoices(chunk)
    \/ \E chunk \in Chunks(MaxFragments - nFragments) : StreamFragments(chunk)
    \/ \E chunk \in Chunks(0) : StreamingCompletedNoCall(chunk)
    \/ \E chunk \in Chunks(0) : StreamingCompleted(chunk)
    \/ \E chunk \in Chunks(MaxFragments - nFragments) : Otherwise(chunk)

\* One iteration of the loop of lines 527-543.
DispatchToolCall ==
    \/ DispatchDisabled
    \/ DispatchBadArguments
    \/ DispatchPost

Next ==
    \/ ProcessChunk
    \/ DispatchToolCall

Spec == Init /\ [][Next]_vars

\* --------------------------------- two requests, each with its own object
\* The state object of the request that runs, with its position and logs.
Snapshot ==
    [tool_calls |-> tool_calls, tool_name |-> tool_name,
     tool_arguments_stream |-> tool_arguments_stream,
     current_tool_call |-> current_tool_call,
     function_messages |-> function_messages,
     streaming_state |-> streaming_state, heap |-> heap, pc |-> pc,
     loop_index |-> loop_index, result |-> result, last_chunk |-> last_chunk,
     dispatches |-> dispatches, flushed |-> flushed, belongs |-> belongs]

\* A plausible slip: function_messages = [] in the class body instead of
\* __init__, one list for every object.
SwitchRequest_SharedFunctionMessages ==
    /\ parked' = Snapshot
    /\ tool_calls' = parked.tool_calls
    /\ tool_name' = parked.tool_name
    /\ tool_arguments_stream' = parked.tool_arguments_stream
    /\ current_tool_call' = parked.current_tool_call
    /\ function_messages' = function_messages
    /\ streaming_state' = parked.streaming_state
    /\ heap' = parked.heap
    /\ pc' = parked.pc
    /\ loop_index' = parked.loop_index
    /\ result' = parked.result
    /\ last_chunk' = parked.last_chunk
    /\ dispatches' = parked.dispatches
    /\ flushed' = parked.flushed
    /\ belongs' = parked.belongs
    /\ UNCHANGED <<function_call_azure_functions_enabled, nFragments, nPasses,
                   chat_vars, history_vars>>

\* The event loop goes over to the second request: between two chunks, or at
\* the await of line 528.  Every attribute set in __init__ (lines 483-491)
\* belongs to the object of the request; the setting of line 133 is the
\* app's.
SwitchRequest ==
    /\ parked' = Snapshot
    /\ tool_calls' = parked.tool_calls
    /\ tool_name' = parked.tool_name
    /\ tool_arguments_stream' = parked.tool_arguments_stream
    /\ current_tool_call' = parked.current_tool_call
    /\ function_messages' = parked.function_messages
    /\ streaming_state' = parked.streaming_state
    /\ heap' = parked.heap
    /\ pc' = parked.pc
    /\ loop_index' = parked.loop_index
    /\ result' = parked.result
    /\ last_chunk' = parked.last_chunk
    /\ dispatches' = parked.dispatches
    /\ flushed' = parked.flushed
    /\ belongs' = parked.belongs
    /\ UNCHANGED <<function_call_azure_functions_enabled, nFragments, nPasses,
                   chat_vars, history_vars>>

\* One invocation of process_function_call_stream on the object of the
\* request that runs.
ProcessChunkOfRunning ==
    \/ \E chunk \in Chunks(0) : NoChoices(chunk)
    \/ \E chunk \in Chunks(MaxConcurrentFragments - nFragments) :
          StreamFragments(chunk)
    \/ \E chunk \in Chunks(0) : StreamingCompletedNoCall(chunk)
    \/ \E chunk \in Chunks(0) : StreamingCompleted(chunk)
    \/ \E chunk \in Chunks(MaxConcurrentFragments - nFragments) :
          Otherwise(chunk)

NextTwo ==
    \/ ProcessChunkOfRunning
    \/ DispatchToolCall
    \/ SwitchRequest

\* A state object in mid-stream: the one the chunk of a fragment that opens
\* call A and two fragments with the argument text "{" and "}" leaves
\* (lines 499-518 on a new object).
MidStream ==
    [ProcessToolCallChunks(NewObject,
        << [id |-> "A", name |-> "f", arguments |-> None],
           [id |-> None, name |-> None, arguments |-> "{"],
           [id |-> None, name |-> None, arguments |-> "}"] >>)
     EXCEPT !.streaming_state = "STREAMING", !.last_chunk = "fragments"]

\* The objects two concurrent requests are watched from.
StartObjects == {NewObject, MidStream}

\* Two requests, each with a state object that is new or in mid-stream.
InitTwo ==
    /\ \E o \in StartObjects :
          /\ tool_calls = o.tool_calls
          /\ tool_name = o.tool_name
          /\ tool_arguments_stream = o.tool_arguments_stream
          /\ current_tool_call = o.current_tool_call
          /\ function_messages = o.function_messages
          /\ streaming_state = o.streaming_state
          /\ heap = o.heap
          /\ pc = o.pc
          /\ loop_index = o.loop_index
          /\ result = o.result
          /\ last_chunk = o.last_chunk
          /\ dispatches = o.dispatches
          /\ flushed = o.flushed
          /\ belongs = o.belongs
    /\ parked \in StartObjects
    /\ nFragments = 0
    /\ nPasses = 0
    /\ function_call_azure_functions_enabled \in BOOLEAN
    /\ azure_openai_stream = TRUE
    /\ NoChats
    /\ chat_history = TRUE
    /\ NotStarted

SpecTwo == InitTwo /\ [][NextTwo]_vars

\* ------------------------------------------- the chat request, 448-580
\* The stream state object and what is logged about it.
stream_state_vars ==
    <<accumulator, function_call_azure_functions_enabled, pc, loop_index,
      result, last_chunk, dispatches, flushed, belongs, nFragments, nPasses,
      parked>>

\* Line 554: request_body.get("history_metadata", {}), one per request.
HistoryMetadata(r) == [conversation_id |-> r]

\* Line 558: what generate yields for a chunk.
format_stream_response(completionChunk, history_metadata, apim_request_id) ==
    [chunk |-> completionChunk, history_metadata |-> history_metadata,
     apim_request_id |-> apim_request_id]

\* A plausible slip: lines 575-580 without the hasattr test.
ErrorResponse_Always500(ex) ==
    [kind |-> "json", error |-> ex.name, status |-> 500]

\* Lines 575-580: the JSON error conversation_internal returns.
ErrorResponse(ex) ==
    [kind |-> "json", error |-> ex.name,
     status |-> IF ex.has_status_code THEN ex.status_code ELSE 500]

\* Lines 567-570: the response made of the generator.
StreamedResponse ==
    [kind |-> "stream", status |-> 200,
     mimetype |-> "application/json-lines", timeout |-> None]

\* Lines 583-589 and 563-566: conversation_internal is entered and awaits
\* send_chat_request.
ChatArrives(r) ==
    /\ chats[r].pc = "none"
    /\ chats' = [chats EXCEPT ![r].pc = "setup"]
    /\ UNCHANGED <<stream_state_vars, azure_openai_stream, history_vars>>

\* Lines 458-467 raise while the request is set up; lines 575-580 answer.
SendChatRequestRaises(r, ex) ==
    /\ chats[r].pc = "setup"
    /\ chats' = [chats EXCEPT ![r].pc = "responded",
                              ![r].upstream_error = ex,
                              ![r].response = ErrorResponse(ex)]
    /\ UNCHANGED <<stream_state_vars, azure_openai_stream, history_vars>>

\* Lines 553-560 and 566-570: the generator is made and handed to the
\* response, which conversation_internal returns before any chunk is read.
StreamChatRequestReturns(r) ==
    /\ chats[r].pc = "setup"
    /\ azure_openai_stream
    /\ chats' = [chats EXCEPT ![r].pc = "streaming",
                              ![r].response = StreamedResponse]
    /\ UNCHANGED <<stream_state_vars, azure_openai_stream, history_vars>>

\* Lines 572-573: the buffered answer.
CompleteChatRequestReturns(r) ==
    /\ chats[r].pc = "setup"
    /\ ~azure_openai_stream
    /\ chats' = [chats EXCEPT ![r].pc = "responded",
                              ![r].response =
                                  [kind |-> "json", status |-> 200]]
    /\ UNCHANGED <<stream_state_vars, azure_openai_stream, history_vars>>

\* A plausible slip: generate passing on only the chunks that carry text.
GenerateYields_TextOnly(r, completionChunk) ==
    /\ chats[r].pc = "streaming"
    /\ Len(chats[r].upstream) < MaxChunks
    /\ chats' = [chats EXCEPT
          ![r].upstream = Append(@, completionChunk),
          ![r].events =
              IF completionChunk.kind = "text"
              THEN Append(@, format_stream_response(completionChunk,
                                                    HistoryMetadata(r), ""))
              ELSE @]
    /\ UNCHANGED <<stream_state_vars, azure_openai_stream, history_vars>>

\* Lines 557-558: the upstream yields a chunk and generate yields its record.
GenerateYields(r, completionChunk) ==
    /\ chats[r].pc = "streaming"
    /\ Len(chats[r].upstream) < MaxChunks
    /\ chats' = [chats EXCEPT
          ![r].upstream = Append(@, completionChunk),
          ![r].events = Append(@, format_stream_response(completionChunk,
                                                         HistoryMetadata(r), ""))]
    /\ UNCHANGED <<stream_state_vars, azure_openai_stream, history_vars>>

\* A plausible slip: generate ending with an event of its own.
GenerateExhausted_YieldsDone(r) ==
    /\ chats[r].pc = "streaming"
    /\ chats' = [chats EXCEPT
          ![r].pc = "exhausted",
          ![r].events = Append(@, [done |-> HistoryMetadata(r)])]
    /\ UNCHANGED <<stream_state_vars, azure_openai_stream, history_vars>>

\* Line 557: the upstream is exhausted; generate returns.
GenerateExhausted(r) ==
    /\ chats[r].pc = "streaming"
    /\ chats' = [chats EXCEPT ![r].pc = "exhausted"]
    /\ UNCHANGED <<stream_state_vars, azure_openai_stream, history_vars>>

\* A plausible slip: generate catching the exception and yielding an event.
GenerateRaises_YieldsError(r, ex) ==
    /\ chats[r].pc = "streaming"
    /\ chats' = [chats EXCEPT
          ![r].pc = "raised",
          ![r].upstream_error = ex,
          ![r].events = Append(@, [error |-> ex.name])]
    /\ UNCHANGED <<stream_state_vars, azure_openai_stream, history_vars>>

\* Line 557: the upstream raises; generate has no handler and the exception
\* leaves it, to whoever iterates the generator.
GenerateRaises(r, ex) ==
    /\ chats[r].pc = "streaming"
    /\ chats' = [chats EXCEPT ![r].pc = "raised",
                              ![r].upstream_error = ex,
                              ![r].propagated = ex]
    /\ UNCHANGED <<stream_state_vars, azure_openai_stream, history_vars>>

\* The settings are read once; no stream state object is made (nothing in
\* lines 552-580 calls process_function_call_stream).
InitChat ==
    /\ NewStreamState
    /\ function_call_azure_functions_enabled \in BOOLEAN
    /\ azure_openai_stream \in BOOLEAN
    /\ NoChats
    /\ chat_history = TRUE
    /\ NotStarted

NextChat ==
    \/ \E r \in ChatRequests : ChatArrives(r)
    \/ \E r \in ChatRequests, ex \in UpstreamExceptions :
          SendChatRequestRaises(r, ex)
    \/ \E r \in ChatRequests : StreamChatRequestReturns(r)
    \/ \E r \in ChatRequests : CompleteChatRequestReturns(r)
    \/ \E r \in ChatRequests : \E completionChunk \in UpstreamChunks(r) :
          GenerateYields(r, completionChunk)
    \/ \E r \in ChatRequests : GenerateExhausted(r)
    \/ \E r \in ChatRequests, ex \in UpstreamExceptions :
          GenerateRaises(r, ex)

SpecChat == InitChat /\ [][NextChat]_vars

\* ----------------------------------------- startup and history, 55-73, 602-
\* What the handlers of this part leave alone.
not_history_vars == <<stream_state_vars, chat_vars>>

\* Lines 615, 672, 774, ...: not current_app.cosmos_conversation_client.
ClientAbsent == cosmos_conversation_client /= "client"

\* What a handler does next: await a call, return a response, or let an
\* exception leave it.
Call(op, input) == [do |-> "call", op |-> op, input |-> input]
Respond(status, error) == [do |-> "respond", status |-> status, error |-> error]
Escape == [do |-> "raise"]

\* The request bodies an endpoint tells apart.
Bodies(endpoint) ==
    CASE endpoint \in {"generate", "update"} ->
           {[NoBody EXCEPT !.conversation_id = c, !.messages = m] :
                c \in BOOLEAN, m \in Messages}
      [] endpoint = "message_feedback" ->
           {[NoBody EXCEPT !.message_id = i, !.message_feedback = f] :
                i \in BOOLEAN, f \in BOOLEAN}
      [] endpoint \in {"delete", "read", "clear"} ->
           {[NoBody EXCEPT !.conversation_id = c] : c \in BOOLEAN}
      [] endpoint = "rename" ->
           {[NoBody EXCEPT !.conversation_id = c, !.title = t] :
                c \in BOOLEAN, t \in BOOLEAN}
      [] OTHER -> {NoBody}

\* What an awaited call can come back with; "raises" is any exception.  A
\* list of conversations holds one conversation.
Results(op) ==
    CASE op = "generate_title" -> {"title", "raises"}
      [] op = "create_conversation" -> {"dict", "raises"}
      [] op = "create_message" -> {"record", "Conversation not found", "raises"}
      [] op = "conversation_internal" -> {"response", "error response"}
      [] op = "update_message_feedback" -> {"updated", "False", "raises"}
      [] op = "get_conversations" -> {"list", "empty list", "None", "raises"}
      [] op = "get_conversation" -> {"dict", "None", "raises"}
      [] op = "ensure" ->
           {"success", "no success, err", "no success", "raises",
            "raises Invalid credentials",
            "raises Invalid CosmosDB database name",
            "raises Invalid CosmosDB container name"}
      [] OTHER -> {"done", "raises"}

\* The calls that are operations of the document store.
StoreOps == {"create_conversation", "create_message",
             "update_message_feedback", "delete_messages",
             "delete_conversation", "get_conversations", "get_conversation",
             "get_messages", "upsert_conversation", "ensure"}

\* The result of the k-th call a handler awaited.
Ret(R, k) == R.ops[k].result

\* Lines 613-656, after the calls in R.ops have returned.
add_conversation(R) ==
    LET n == Len(R.ops)
        pre == IF R.body.conversation_id THEN 0 ELSE 2
    IN IF ClientAbsent THEN Respond(500, TRUE)
       ELSE IF n < pre /\ n = 0 THEN Call("generate_title", "messages")
       ELSE IF n < pre
            THEN IF Ret(R, 1) = "raises" THEN Respond(500, TRUE)
                 ELSE Call("create_conversation", "title")
       ELSE IF n = pre
            THEN IF pre = 2 /\ Ret(R, 2) = "raises" THEN Respond(500, TRUE)
                 ELSE IF R.body.messages = "last_user"
                      THEN Call("create_message", "user")
                      ELSE Respond(500, TRUE)
       ELSE IF n = pre + 1
            THEN IF Ret(R, n) \in {"raises", "Conversation not found"}
                 THEN Respond(500, TRUE)
                 ELSE Call("conversation_internal", "request_body")
       ELSE IF Ret(R, n) = "response" THEN Respond(200, FALSE)
            ELSE Respond(500, TRUE)

\* A plausible slip: the two writes of lines 685-697 in the other order.
update_conversation_AssistantFirst(R) ==
    LET n == Len(R.ops)
        writes == IF R.body.messages = "tool_then_assistant"
                  THEN <<"assistant", "tool">> ELSE <<"assistant">>
    IN IF ClientAbsent THEN Respond(500, TRUE)
       ELSE IF ~R.body.conversation_id THEN Respond(500, TRUE)
       ELSE IF R.body.messages \notin {"last_assistant", "tool_then_assistant"}
            THEN Respond(500, TRUE)
       ELSE IF n > 0 /\ Ret(R, n) = "raises" THEN Respond(500, TRUE)
       ELSE IF n < Len(writes) THEN Call("create_message", writes[n + 1])
       ELSE Respond(200, FALSE)

\* Lines 670-707.
update_conversation(R) ==
    LET n == Len(R.ops)
        writes == IF R.body.messages = "tool_then_assistant"
                  THEN <<"tool", "assistant">> ELSE <<"assistant">>
    IN IF ClientAbsent THEN Respond(500, TRUE)
       ELSE IF ~R.body.conversation_id THEN Respond(500, TRUE)
       ELSE IF R.body.messages \notin {"last_assistant", "tool_then_assistant"}
            THEN Respond(500, TRUE)
       ELSE IF n > 0 /\ Ret(R, n) = "raises" THEN Respond(500, TRUE)
       ELSE IF n < Len(writes) THEN Call("create_message", writes[n + 1])
       ELSE Respond(200, FALSE)

\* Lines 721-754: the client is used without a test; on None the attribute
\* access raises inside the try.
update_message(R) ==
    IF ~R.body.message_id THEN Respond(400, TRUE)
    ELSE IF ~R.body.message_feedback THEN Respond(400, TRUE)
    ELSE IF ClientAbsent THEN Respond(500, TRUE)
    ELSE IF R.ops = <<>> THEN Call("update_message_feedback", "message_id")
    ELSE IF Ret(R, 1) = "raises" THEN Respond(500, TRUE)
    ELSE IF Ret(R, 1) = "updated" THEN Respond(200, FALSE)
    ELSE Respond(404, TRUE)

\* Lines 769-798.
delete_conversation(R) ==
    LET n == Len(R.ops)
    IN IF ~R.body.conversation_id THEN Respond(400, TRUE)
       ELSE IF ClientAbsent THEN Respond(500, TRUE)
       ELSE IF n > 0 /\ Ret(R, n) = "raises" THEN Respond(500, TRUE)
       ELSE IF n = 0 THEN Call("delete_messages", "conversation_id")
       ELSE IF n = 1 THEN Call("delete_conversation", "conversation_id")
       ELSE Respond(200, FALSE)

\* Lines 809-822: no try; an exception leaves the handler.
list_conversations(R) ==
    IF ClientAbsent THEN Escape
    ELSE IF R.ops = <<>> THEN Call("get_conversations", "user_id")
    ELSE IF Ret(R, 1) = "raises" THEN Escape
    ELSE IF Ret(R, 1) = "None" THEN Respond(404, TRUE)
    ELSE Respond(200, FALSE)

\* Lines 836-875: no try.
get_conversation(R) ==
    LET n == Len(R.ops)
    IN IF ~R.body.conversation_id THEN Respond(400, TRUE)
       ELSE IF ClientAbsent THEN Escape
       ELSE IF n > 0 /\ Ret(R, n) = "raises" THEN Escape
       ELSE IF n = 0 THEN Call("get_conversation", "conversation_id")
       ELSE IF Ret(R, 1) = "None" THEN Respond(404, TRUE)
       ELSE IF n = 1 THEN Call("get_messages", "conversation_id")
       ELSE Respond(200, FALSE)

\* Lines 889-919: no try.
rename_conversation(R) ==
    LET n == Len(R.ops)
    IN IF ~R.body.conversation_id THEN Respond(400, TRUE)
       ELSE IF ClientAbsent THEN Escape
       ELSE IF n > 0 /\ Ret(R, n) = "raises" THEN Escape
       ELSE IF n = 0 THEN Call("get_conversation", "conversation_id")
       ELSE IF Ret(R, 1) = "None" THEN Respond(404, TRUE)
       ELSE IF ~R.body.title THEN Respond(400, TRUE)
       ELSE IF n = 1 THEN Call("upsert_conversation", "conversation")
       ELSE Respond(200, FALSE)

\* Lines 931-964, for a list of one conversation.
delete_all_conversations(R) ==
    LET n == Len(R.ops)
    IN IF ClientAbsent THEN Respond(500, TRUE)
       ELSE IF n > 0 /\ Ret(R, n) = "raises" THEN Respond(500, TRUE)
       ELSE IF n = 0 THEN Call("get_conversations", "user_id")
       ELSE IF Ret(R, 1) /= "list" THEN Respond(404, TRUE)
       ELSE IF n = 1 THEN Call("delete_messages", "conversation")
       ELSE IF n = 2 THEN Call("delete_conversation", "conversation")
       ELSE Respond(200, FALSE)

\* Lines 979-1003.
clear_messages(R) ==
    IF ~R.body.conversation_id THEN Respond(400, TRUE)
    ELSE IF ClientAbsent THEN Respond(500, TRUE)
    ELSE IF R.ops = <<>> THEN Call("delete_messages", "conversation_id")
    ELSE IF Ret(R, 1) = "raises" THEN Respond(500, TRUE)
    ELSE Respond(200, FALSE)

\* Lines 1009-1044: the client is used at line 1013 before it is tested.
ensure_cosmos(R) ==
    IF ~chat_history THEN Respond(404, TRUE)
    ELSE IF ClientAbsent THEN Respond(500, TRUE)
    ELSE IF R.ops = <<>> THEN Call("ensure", "client")
    ELSE CASE Ret(R, 1) = "success" -> Respond(200, FALSE)
           [] Ret(R, 1) = "no success, err" -> Respond(422, TRUE)
           [] Ret(R, 1) = "no success" -> Respond(500, TRUE)
           [] Ret(R, 1) = "raises Invalid credentials" -> Respond(401, TRUE)
           [] Ret(R, 1) \in {"raises Invalid CosmosDB database name",
                             "raises Invalid CosmosDB container name"} ->
                Respond(422, TRUE)
           [] OTHER -> Respond(500, TRUE)

\* The routes.
Handler(R) ==
    CASE R.endpoint = "generate" -> add_conversation(R)
      [] R.endpoint = "update" -> update_conversation(R)
      [] R.endpoint = "message_feedback" -> update_message(R)
      [] R.endpoint = "delete" -> delete_conversation(R)
      [] R.endpoint = "list" -> list_conversations(R)
      [] R.endpoint = "read" -> get_conversation(R)
      [] R.endpoint = "rename" -> rename_conversation(R)
      [] R.endpoint = "delete_all" -> delete_all_conversations(R)
      [] R.endpoint = "clear" -> clear_messages(R)
      [] R.endpoint = "ensure" -> ensure_cosmos(R)

\* The handler of request r runs on from R to its next await or to its end.
Advance(r, R) ==
    LET m == Handler(R)
    IN requests' = [requests EXCEPT ![r] =
          IF m.do = "call"
          THEN [R EXCEPT !.pc = "awaiting",
                         !.ops = Append(@, [op |-> m.op, input |-> m.input,
                                            result |-> "pending"])]
          ELSE IF m.do = "respond"
          THEN [R EXCEPT !.pc = "responded",
                         !.response = [kind |-> "json", status |-> m.status,
                                       error |-> m.error]]
          ELSE [R EXCEPT !.pc = "escaped"]]

\* Line 64: the server starts serving; init() awaits init_cosmosdb_client.
InitStarts ==
    /\ init_pc = "before"
    /\ init_pc' = "awaiting"
    /\ UNCHANGED <<not_history_vars, chat_history,
                   cosmos_conversation_client, cosmos_db_ready, requests>>

\* Lines 150-151, 175-178 and 66: the store is not configured; None is
\* returned and assigned.
InitClientNotConfigured ==
    /\ init_pc = "awaiting"
    /\ ~chat_history
    /\ cosmos_conversation_client' = "None"
    /\ init_pc' = "assigned"
    /\ UNCHANGED <<not_history_vars, chat_history, cosmos_db_ready, requests>>

\* Lines 152-170, 178 and 66: the client is made, returned and assigned.
InitClientMade ==
    /\ init_pc = "awaiting"
    /\ chat_history
    /\ cosmos_conversation_client' = "client"
    /\ init_pc' = "assigned"
    /\ UNCHANGED <<not_history_vars, chat_history, cosmos_db_ready, requests>>

\* Lines 171-174 and 68-71: making the client raises; init() sets the
\* attribute to None and raises again.
InitClientRaises ==
    /\ init_pc = "awaiting"
    /\ chat_history
    /\ cosmos_conversation_client' = "None"
    /\ init_pc' = "failed"
    /\ UNCHANGED <<not_history_vars, chat_history, cosmos_db_ready, requests>>

\* Line 67, after the assignment of line 66.
InitSetsReady ==
    /\ init_pc = "assigned"
    /\ cosmos_db_ready' = TRUE
    /\ init_pc' = "done"
    /\ UNCHANGED <<not_history_vars, chat_history,
                   cosmos_conversation_client, requests>>

\* A request is routed to its handler, which awaits cosmos_db_ready.wait();
\* a request that is over makes room for the next one.
RequestArrives(r, endpoint) ==
    /\ requests[r].pc \in {"none", "responded", "escaped"}
    /\ requests' = [requests EXCEPT
          ![r] = [NoRequest EXCEPT !.pc = "waiting", !.endpoint = endpoint,
                                   !.early = ~cosmos_db_ready]]
    /\ UNCHANGED <<not_history_vars, chat_history, init_pc,
                   cosmos_conversation_client, cosmos_db_ready>>

\* A plausible slip: a handler without its first line.
ReadinessWaitReturns_NoWait(r, body) ==
    /\ requests[r].pc = "waiting"
    /\ body \in Bodies(requests[r].endpoint)
    /\ Advance(r, [requests[r] EXCEPT !.body = body])
    /\ UNCHANGED <<not_history_vars, chat_history, init_pc,
                   cosmos_conversation_client, cosmos_db_ready>>

\* Lines 604, 661, ...: the event is set, wait() returns, and the handler
\* reads the request and runs on.
ReadinessWaitReturns(r, body) ==
    /\ requests[r].pc = "waiting"
    /\ cosmos_db_ready
    /\ body \in Bodies(requests[r].endpoint)
    /\ Advance(r, [requests[r] EXCEPT !.body = body])
    /\ UNCHANGED <<not_history_vars, chat_history, init_pc,
                   cosmos_conversation_client, cosmos_db_ready>>

\* The call the handler awaits returns or raises, and the handler runs on.
AwaitedCallReturns(r, value) ==
    /\ requests[r].pc = "awaiting"
    /\ LET R == requests[r]
           n == Len(R.ops)
       IN /\ value \in Results(R.ops[n].op)
          /\ Advance(r, [R EXCEPT !.ops[n].result = value])
    /\ UNCHANGED <<not_history_vars, chat_history, init_pc,
                   cosmos_conversation_client, cosmos_db_ready>>

\* Every value an awaited call comes back with.
AllResults ==
    UNION {Results(op) : op \in StoreOps \cup {"generate_title",
                                               "conversation_internal"}}

\* Every request body told apart.
AllBodies == UNION {Bodies(endpoint) : endpoint \in Endpoints}

\* The settings are read once; the server is about to start.
InitHistory ==
    /\ NewStreamState
    /\ function_call_azure_functions_enabled = FALSE
    /\ azure_openai_stream = TRUE
    /\ NoChats
    /\ chat_history \in BOOLEAN
    /\ NotStarted

NextHistory ==
    \/ InitStarts
    \/ InitClientNotConfigured
    \/ InitClientMade
    \/ InitClientRaises
    \/ InitSetsReady
    \/ \E r \in HistoryRequests, endpoint \in Endpoints :
          RequestArrives(r, endpoint)
    \/ \E r \in HistoryRequests, body \in AllBodies :
          ReadinessWaitReturns(r, body)
    \/ \E r \in HistoryRequests, value \in AllResults :
          AwaitedCallReturns(r, value)

SpecHistory == InitHistory /\ [][NextHistory]_vars

\* ================================================================ claims
\* Exceptions a dispatch raises out of openai_remote_azure_function_call.
DispatchExceptions == {"JSONDecodeError", "HTTPStatusError"}

\* The requests sent to the tool endpoint for one descriptor.
PostsFor(ref) ==
    Cardinality({k \in DOMAIN dispatches :
                    dispatches[k].call = ref /\ dispatches[k].posted})

\* The descriptors in tool_calls.
Finalized == {tool_calls[k] : k \in DOMAIN tool_calls}

\* C1: when a fragment with a call id arrives while a call is open, the open
\* call is flushed with exactly the argument text accumulated before that
\* fragment; nothing the new call's starting fragment carries is added to it.
C1_FlushKeepsArgumentsBeforeNewCall ==
    \A k \in DOMAIN flushed :
        flushed[k].by = "new_call" => flushed[k].arguments = flushed[k].before

\* C2: the tool_arguments of every finalized descriptor is the concatenation,
\* in arrival order, of exactly the argument deltas of its own call: the delta
\* of the fragment that opened it and those of the id-less fragments that
\* followed while it was open (the empty string when there were none).
C2_ArgumentsAreTheCallsOwnDeltas ==
    \A ref \in Finalized : heap[ref].tool_arguments = belongs[ref]

\* C3: each call descriptor is in tool_calls at most once, whatever chunks
\* are offered, also after a dispatch has failed.
C3_DescriptorFinalizedAtMostOnce ==
    \A j, k \in DOMAIN tool_calls : j /= k => tool_calls[j] /= tool_calls[k]

\* C4: as long as no call was ever opened, fragments without an id are only
\* buffered: no call is opened or finalized for them and no invocation
\* raises, the end-of-tool-calls signal included.
C4_OrphanFragmentsTolerated ==
    heap = <<>> =>
        /\ current_tool_call = NoneRef
        /\ tool_calls = <<>>
        /\ result \notin DispatchExceptions \cup {"TypeError"}

\* C5 as stated: once the state is COMPLETED, an invocation offered a chunk
\* with tool-call fragments ends in a ProtocolError.
C5_CompletedRejectsWithProtocolError ==
    [][(pc = "idle" /\ streaming_state = "COMPLETED"
            /\ last_chunk' = "fragments")
        => result' = "ProtocolError"]_vars

\* C5 as amended: once the state is COMPLETED, an invocation offered a chunk
\* with tool-call fragments accepts none of them: it leaves every field of
\* the state object as it was and returns "COMPLETED" without raising.
C5_CompletedIgnoresFragments ==
    [][(pc = "idle" /\ streaming_state = "COMPLETED"
            /\ last_chunk' = "fragments")
        => (result' = "COMPLETED" /\ UNCHANGED accumulator)]_vars

\* A chunk with fragments was offered to a COMPLETED state and returned.
C5_Witness ==
    /\ streaming_state = "COMPLETED"
    /\ last_chunk = "fragments"
    /\ result = "COMPLETED"

\* C6: streaming_state starts INITIAL and only moves forward: INITIAL becomes
\* STREAMING on the first chunk that carries fragments, STREAMING becomes
\* COMPLETED only in the dispatch loop entered on the end-of-tool-calls
\* signal, and no other change of it happens.
C6_StreamingStateMovesForward ==
    /\ streaming_state = "INITIAL"
    /\ [][/\ (pc = "idle" /\ streaming_state = "INITIAL"
                 /\ last_chunk' = "fragments")
             => streaming_state' = "STREAMING"
          /\ streaming_state' /= streaming_state
             => \/ /\ streaming_state = "INITIAL"
                   /\ streaming_state' = "STREAMING"
                   /\ last_chunk' = "fragments"
                \/ /\ streaming_state = "STREAMING"
                   /\ streaming_state' = "COMPLETED"
                   /\ pc = "dispatch"
                   /\ last_chunk = "None"]_vars

\* The state stayed STREAMING across a failed dispatch and was COMPLETED by
\* a later end-of-tool-calls signal.
C6_Witness ==
    /\ streaming_state = "COMPLETED"
    /\ \E k \in DOMAIN dispatches : dispatches[k].raised /= None

\* What the last dispatch of a descriptor returned.
ResultOf(ref) ==
    LET ks == {k \in DOMAIN dispatches : dispatches[k].call = ref}
    IN dispatches[CHOOSE k \in ks : \A j \in ks : j <= k].returned

\* C7: when the state is COMPLETED, function_messages is, for each finalized
\* call in order, one pair: an assistant message with content null and the
\* call's function_call, then a message of role tool with the call's id and
\* the result of the call's dispatch.
C7_CompletedHoldsAssistantToolPairs ==
    streaming_state = "COMPLETED" =>
        /\ Len(function_messages) = 2 * Len(tool_calls)
        /\ \A k \in DOMAIN tool_calls :
              LET call == heap[tool_calls[k]]
                  first == function_messages[2 * k - 1]
                  second == function_messages[2 * k]
              IN /\ first = [role |-> "assistant",
                             function_call |->
                                 [name |-> call.tool_name,
                                  arguments |-> call.tool_arguments],
                             content |-> None]
                 /\ second.role = "tool"
                 /\ second.tool_call_id = call.tool_id
                 /\ second.content = ResultOf(tool_calls[k])

\* C8: with the tool endpoint enabled, only finalized calls are dispatched,
\* no call is sent to the endpoint more than once, and when the stream has
\* completed every finalized call was sent exactly once.
C8_OneDispatchPerFinalizedCall ==
    function_call_azure_functions_enabled =>
        /\ \A k \in DOMAIN dispatches :
              /\ dispatches[k].call \in Finalized
              /\ "tool_arguments" \in DOMAIN heap[dispatches[k].call]
        /\ \A ref \in DOMAIN heap : PostsFor(ref) <= 1
        /\ streaming_state = "COMPLETED" =>
              \A ref \in Finalized : PostsFor(ref) = 1

\* C9: a failed dispatch does not leave stream processing as an exception.
C9_DispatchFailureDoesNotPropagate ==
    result \notin DispatchExceptions

\* The descriptor has its assistant message, followed by its result message.
HasMessagePair(ref) ==
    \E k \in DOMAIN function_messages :
        /\ k < Len(function_messages)
        /\ function_messages[k].role = "assistant"
        /\ function_messages[k].function_call =
              [name |-> heap[ref].tool_name,
               arguments |-> heap[ref].tool_arguments]
        /\ function_messages[k + 1].role /= "assistant"
        /\ function_messages[k + 1].tool_call_id = heap[ref].tool_id

\* C10: when the dispatch of one finalized call has failed, every other
\* finalized call has still been dispatched and has its pair of messages.
C10_FailureSparesSiblingCalls ==
    result \in DispatchExceptions =>
        \A ref \in Finalized \ {dispatches[Len(dispatches)].call} :
            /\ \E k \in DOMAIN dispatches : dispatches[k].call = ref
            /\ HasMessagePair(ref)

\* C11 as stated: while the tool endpoint is not enabled, a dispatch sends no
\* request and fails with ToolUnavailable; no result of it is recorded as a
\* message.
C11_DisabledDispatchFailsUnavailable ==
    ~function_call_azure_functions_enabled =>
        /\ \A k \in DOMAIN dispatches :
              /\ ~dispatches[k].posted
              /\ dispatches[k].raised = "ToolUnavailable"
        /\ function_messages = <<>>

\* C11 as amended: while the tool endpoint is not enabled, a dispatch sends
\* no request and raises nothing: it returns None, and that None is recorded
\* as the content of the call's function message.
C11_DisabledDispatchReturnsNone ==
    ~function_call_azure_functions_enabled =>
        /\ \A k \in DOMAIN dispatches :
              /\ ~dispatches[k].posted
              /\ dispatches[k].raised = None
              /\ dispatches[k].returned = None
        /\ result \notin DispatchExceptions \cup {"ToolUnavailable"}
        /\ Len(function_messages) = 2 * Len(dispatches)
        /\ \A k \in DOMAIN dispatches :
              /\ function_messages[2 * k].tool_call_id
                    = heap[dispatches[k].call].tool_id
              /\ function_messages[2 * k].content = None

\* A call was dispatched with the tool endpoint not enabled.
C11_Witness ==
    /\ ~function_call_azure_functions_enabled
    /\ dispatches /= <<>>
    /\ function_messages /= <<>>

\* ------------------------------------------------ claims on chat requests
\* The kind of an event of the generator.
EventKind(e) ==
    IF "error" \in DOMAIN e THEN "Error"
    ELSE IF "done" \in DOMAIN e THEN "Done"
    ELSE "record"

\* The records of the chunks the upstream of request r has yielded, in order.
Formatted(r) ==
    [k \in 1..Len(chats[r].upstream) |->
        format_stream_response(chats[r].upstream[k], HistoryMetadata(r), "")]

\* C12 as stated: when the upstream raised after N chunks, the generator has
\* yielded the N records and then exactly one Error event, and the exception
\* has not left the generator.
C12_UpstreamErrorBecomesErrorEvent ==
    \A r \in ChatRequests :
        chats[r].pc = "raised" =>
            LET N == Len(chats[r].upstream)
            IN /\ Len(chats[r].events) = N + 1
               /\ SubSeq(chats[r].events, 1, N) = Formatted(r)
               /\ EventKind(chats[r].events[N + 1]) = "Error"
               /\ chats[r].propagated = NoException

\* C12 as amended: when the upstream raised after N chunks, the generator
\* has yielded exactly the N records of those chunks, no Error and no Done
\* event, and the upstream's exception has left the generator.
C12_UpstreamErrorLeavesGenerator ==
    \A r \in ChatRequests :
        chats[r].pc = "raised" =>
            /\ chats[r].events = Formatted(r)
            /\ \A k \in DOMAIN chats[r].events :
                  EventKind(chats[r].events[k]) = "record"
            /\ chats[r].propagated /= NoException
            /\ chats[r].propagated = chats[r].upstream_error

\* The upstream of a request raised after it had yielded a chunk.
C12_Witness ==
    \E r \in ChatRequests :
        /\ chats[r].pc = "raised"
        /\ Len(chats[r].upstream) >= 1

C15_EveryFailureSetsTheStatus ==
    \A r \in ChatRequests :
        chats[r].upstream_error /= NoException =>
            /\ chats[r].response.kind = "json"
            /\ "error" \in DOMAIN chats[r].response
            /\ chats[r].response.status =
                  IF chats[r].upstream_error.has_status_code
                  THEN chats[r].upstream_error.status_code ELSE 500

\* C15 as amended: a failure raised while the request is set up is answered
\* with a JSON error with the exception's status_code, or 500 when it has
\* none; a failure raised while the stream is iterated finds the streamed
\* response already returned, with status 200, and does not change it.
C15_SetupFailureSetsTheStatus ==
    \A r \in ChatRequests :
        /\ (chats[r].pc = "responded"
               /\ chats[r].upstream_error /= NoException) =>
              /\ chats[r].response.kind = "json"
              /\ chats[r].response.error = chats[r].upstream_error.name
              /\ chats[r].response.status =
                    IF chats[r].upstream_error.has_status_code
                    THEN chats[r].upstream_error.status_code ELSE 500
        /\ chats[r].pc = "raised" =>
              /\ chats[r].upstream_error /= NoException
              /\ chats[r].response = StreamedResponse
              /\ chats[r].response.status = 200

\* One request failed in its set-up with an exception that has a
\* status_code, another while its stream was iterated.
C15_Witness ==
    \E r, q \in ChatRequests :
        /\ chats[r].pc = "responded"
        /\ chats[r].upstream_error /= NoException
        /\ chats[r].upstream_error.has_status_code
        /\ chats[q].pc = "raised"

\* ---------------------------------------------- claims on the history API
\* The store operations the handler of request r has issued.
StoreOpsOf(r) ==
    {k \in DOMAIN requests[r].ops : requests[r].ops[k].op \in StoreOps}

\* Request r was answered with a JSON error.
ReportedError(r) ==
    /\ requests[r].pc = "responded"
    /\ requests[r].response.kind = "json"
    /\ requests[r].response.error
    /\ requests[r].response.status >= 400
    /\ requests[r].response.status <= 599

\* C16: a history request handled while the store client is absent is
\* answered with a JSON error of status 4xx or 5xx; its handler issues no
\* store operation and no exception leaves it.
C16_AbsentClientIsReportedError ==
    \A r \in HistoryRequests :
        (ClientAbsent /\ requests[r].pc \notin {"none", "waiting"}) =>
            /\ ReportedError(r)
            /\ StoreOpsOf(r) = {}

\* C17: a handler is past its wait, and has issued calls, only when
\* cosmos_db_ready is set; the event is set only after init has assigned the
\* client; once set it stays set.
C17_NothingBeforeReady ==
    /\ [](\A r \in HistoryRequests :
            (requests[r].pc \notin {"none", "waiting"}
                \/ requests[r].ops /= <<>>) => cosmos_db_ready)
    /\ [](cosmos_db_ready =>
            /\ cosmos_conversation_client /= "unset"
            /\ init_pc = "done")
    /\ [][cosmos_db_ready => cosmos_db_ready']_vars
    /\ [][\A r \in HistoryRequests :
            requests'[r].ops /= requests[r].ops => cosmos_db_ready]_vars

\* A request that came in before the event was set has issued a store
\* operation.
C17_Witness ==
    \E r \in HistoryRequests :
        /\ requests[r].early
        /\ requests[r].pc = "awaiting"
        /\ StoreOpsOf(r) /= {}

\* A create_message of request r came back with the sentinel.
ConversationNotFound(r) ==
    \E k \in DOMAIN requests[r].ops :
        /\ requests[r].ops[k].op = "create_message"
        /\ requests[r].ops[k].result = "Conversation not found"

\* C18: a /history/generate or /history/update request one of whose
\* create_message calls returned "Conversation not found" is answered with
\* an error, never with success.
C18_SentinelIsReportedError ==
    \A r \in HistoryRequests :
        (requests[r].pc = "responded" /\ ConversationNotFound(r)) =>
            ReportedError(r)

\* Startup and the handlers run on whenever they can; the calls they await
\* come back.
FairSpecHistory ==
    /\ SpecHistory
    /\ WF_vars(InitStarts \/ InitClientNotConfigured \/ InitClientMade
                 \/ InitClientRaises \/ InitSetsReady)
    /\ \A r \in HistoryRequests :
          /\ WF_vars(\E body \in Bodies(requests[r].endpoint) :
                        ReadinessWaitReturns(r, body))
          /\ WF_vars(\E value \in AllResults : AwaitedCallReturns(r, value))

\* C20: when init has failed, a history request that waits for the event is
\* in the end answered with a JSON error.
C20_FailedInitStillAnswers ==
    \A r \in HistoryRequests :
        (init_pc = "failed" /\ requests[r].pc = "waiting")
            ~> ReportedError(r)

WritesOf(r) ==
    [k \in DOMAIN requests[r].ops |-> requests[r].ops[k].input]

\* The k-th awaited call of request r has come back without raising.
Completed(r, k) == requests[r].ops[k].result \notin {"pending", "raises"}

\* Request r was answered with success.
ReportedSuccess(r) ==
    /\ requests[r].pc = "responded"
    /\ requests[r].response.status = 200

CreatedRecords(r) ==
    {k \in DOMAIN requests[r].ops :
        \/ /\ requests[r].ops[k].op = "create_conversation"
           /\ requests[r].ops[k].result = "dict"
        \/ /\ requests[r].ops[k].op = "create_message"
           /\ requests[r].ops[k].result = "record"}

\* C22: a /history/generate request whose message list is empty or does not
\* end in a user message, and which was answered with an error, has created
\* no conversation record and no message record, whether or not it carried
\* a conversation_id.
C22_RejectedGenerateLeavesNoRecord ==
    \A r \in HistoryRequests :
        (/\ requests[r].endpoint = "generate"
         /\ requests[r].body.messages /= "last_user"
         /\ ReportedError(r)) =>
            CreatedRecords(r) = {}

====
